---- MODULE Spec2Model ----
(***************************************************************************)
(* A model of RustAutoComplete.py, the Sublime Text plugin that asks the   *)
(* racer binary for completions and definitions.                           *)
(*                                                                         *)
(* Text is modelled as a sequence of one-character strings, so that        *)
(* slicing, splitting, prefix tests and number conversion are computed     *)
(* the way the Python code computes them.  The host (Sublime Text), the    *)
(* file system and the racer process are the environment: what they hand   *)
(* to the plugin is drawn from bounded sets.                               *)
(***************************************************************************)
EXTENDS Integers, Sequences, FiniteSets, TLC

VARIABLES
    platform,          \* sublime.platform(): fixed for one run of the editor
    package_settings,  \* the host's RustAutoComplete.sublime-settings object
    settings,          \* the module global `settings` (None or a Settings)
    live,              \* Settings objects constructed and not unloaded since
    stale,             \* listeners found registered when the last Settings() began
    view,              \* the view handed to the last call: its window and itself
    request            \* the last request: what the plugin did with it

vars == <<platform, package_settings, settings, live, stale, view, request>>

-----------------------------------------------------------------------------
(* Bounds of the model.                                                    *)

\* the racer output of one request holds at most this many lines
MaxLines == 2

\* a window holds at most this many views
MaxViews == 4

-----------------------------------------------------------------------------
(* Python's None: a text that is None is the empty sequence (the host never *)
(* hands out an empty file name), and the global `settings` is a sequence  *)
(* of at most one Settings object.                                         *)

None == <<>>

-----------------------------------------------------------------------------
(* Text helpers.                                                           *)

Digits == <<"0", "1", "2", "3", "4", "5", "6", "7", "8", "9">>

DigitSet == {Digits[i] : i \in 1..10}

LetterSet ==
    {"a", "b", "c", "d", "e", "f", "g", "h", "i", "j", "k", "l", "m", "n", "o",
     "p", "q", "r", "s", "t", "u", "v", "w", "x", "y", "z",
     "A", "B", "C", "D", "E", "F", "G", "H", "I", "J", "K", "L", "M", "N", "O",
     "P", "Q", "R", "S", "T", "U", "V", "W", "X", "Y", "Z"}

Max(a, b) == IF a >= b THEN a ELSE b

\* s[i:] for a 1-based i
Drop(s, i) == SubSeq(s, i, Len(s))

\* s[-n:]
Suffix(s, n) == SubSeq(s, Max(1, Len(s) - n + 1), Len(s))

\* s.startswith(p)
StartsWith(s, p) == Len(s) >= Len(p) /\ SubSeq(s, 1, Len(p)) = p

\* s.find(c) + 1: the 1-based place of the first c in s, 0 when there is none
RECURSIVE FindFrom(_, _, _)
FindFrom(s, c, i) ==
    IF i > Len(s) THEN 0
    ELSE IF s[i] = c THEN i
    ELSE FindFrom(s, c, i + 1)

Find(s, c) == FindFrom(s, c, 1)

\* the 1-based place of the last character of s that is in cs, 0 when none
RECURSIVE RFindIn(_, _, _)
RFindIn(s, cs, i) ==
    IF i = 0 THEN 0
    ELSE IF s[i] \in cs THEN i
    ELSE RFindIn(s, cs, i - 1)

\* s.rstrip(cs)
RECURSIVE RStrip(_, _)
RStrip(s, cs) ==
    IF Len(s) > 0 /\ s[Len(s)] \in cs THEN RStrip(SubSeq(s, 1, Len(s) - 1), cs)
    ELSE s

\* s.lstrip(cs)
RECURSIVE LStrip(_, _)
LStrip(s, cs) ==
    IF Len(s) > 0 /\ s[1] \in cs THEN LStrip(Drop(s, 2), cs)
    ELSE s

\* n spaces
Spaces(n) == [i \in 1..Max(0, n) |-> " "]

\* format(s, '>w'): s right-aligned in a field of width w
RightAlign(s, w) == Spaces(w - Len(s)) \o s

\* str(n) for an integer n
RECURSIVE StrNat(_)
StrNat(n) ==
    IF n < 10 THEN <<Digits[n + 1]>>
    ELSE StrNat(n \div 10) \o <<Digits[(n % 10) + 1]>>

str(n) == IF n < 0 THEN <<"-">> \o StrNat(0 - n) ELSE StrNat(n)

DigitValue(c) == CHOOSE d \in 0..9 : Digits[d + 1] = c

RECURSIVE NatValue(_)
NatValue(s) ==
    IF Len(s) = 0 THEN 0
    ELSE 10 * NatValue(SubSeq(s, 1, Len(s) - 1)) + DigitValue(s[Len(s)])

\* int(s): surrounding blanks are stripped, one sign is allowed, and the rest
\* has to be decimal digits; anything else raises ValueError
IntBody(s) ==
    LET t == RStrip(LStrip(s, {" "}), {" "})
    IN  IF Len(t) > 0 /\ t[1] \in {"-", "+"} THEN Drop(t, 2) ELSE t

IntSign(s) ==
    LET t == RStrip(LStrip(s, {" "}), {" "})
    IN  IF Len(t) > 0 /\ t[1] = "-" THEN 0 - 1 ELSE 1

IsInt(s) ==
    /\ Len(IntBody(s)) > 0
    /\ \A i \in 1..Len(IntBody(s)) : IntBody(s)[i] \in DigitSet

int(s) == IntSign(s) * NatValue(IntBody(s))

\* s.split(sep, maxsplit): at most maxsplit cuts, so at most maxsplit + 1 parts
RECURSIVE split(_, _, _)
split(s, sep, maxsplit) ==
    LET i == Find(s, sep)
    IN  IF maxsplit = 0 \/ i = 0 THEN <<s>>
        ELSE <<SubSeq(s, 1, i - 1)>> \o split(Drop(s, i + 1), sep, maxsplit - 1)

\* parts.insert(i, x) for a 0-based i within the list
insert(parts, i, x) == SubSeq(parts, 1, i) \o <<x>> \o Drop(parts, i + 1)

\* output.splitlines(): cut at each line feed, no empty last line
RECURSIVE splitlines(_)
splitlines(s) ==
    LET i == Find(s, "\n")
    IN  IF Len(s) = 0 THEN <<>>
        ELSE IF i = 0 THEN <<s>>
        ELSE <<SubSeq(s, 1, i - 1)>> \o splitlines(Drop(s, i + 1))

\* the byte a UTF-8 decoder rejects
BadByte == "\\xff"

\* byte_line.decode("utf-8") succeeds
Decodes(byte_line) == \A i \in 1..Len(byte_line) : byte_line[i] # BadByte

RECURSIVE Concat(_)
Concat(ss) == IF Len(ss) = 0 THEN <<>> ELSE ss[1] \o Concat(Drop(ss, 2))

\* all sequences over S of length at most n
SeqsUpTo(S, n) == UNION {[1..k -> S] : k \in 0..n}

-----------------------------------------------------------------------------
(* os.path, for the two families of platforms.                             *)

os_name == IF platform = "windows" THEN "nt" ELSE "posix"

Seps(os) == IF os = "nt" THEN {"/", "\\"} ELSE {"/"}

\* the length of the drive prefix ntpath.splitdrive finds ("c:"), 0 on posix
DriveLen(os, p) == IF os = "nt" /\ Len(p) >= 2 /\ p[2] = ":" THEN 2 ELSE 0

\* os.path.dirname(p)
dirname(os, p) ==
    LET d    == DriveLen(os, p)
        rest == Drop(p, d + 1)
        head == SubSeq(rest, 1, RFindIn(rest, Seps(os), Len(rest)))
        cut  == IF RStrip(head, Seps(os)) = <<>> THEN head
                ELSE RStrip(head, Seps(os))
    IN  SubSeq(p, 1, d) \o cut

\* os.path.join(a, b) for a relative b without a drive
join(os, a, b) ==
    IF Len(a) = 0 THEN b
    ELSE IF a[Len(a)] \in Seps(os) THEN a \o b
    ELSE IF os = "nt" /\ a[Len(a)] = ":" THEN a \o b
    ELSE a \o (IF os = "nt" THEN <<"\\">> ELSE <<"/">>) \o b

-----------------------------------------------------------------------------
(* The editor: windows, views and the files they show.                     *)

TransientName == <<"_", "t", "r", "a", "n", "s", "i", "e", "n", "t", ".", "r", "s">>

DotRs == <<".", "r", "s">>

Dash == <<"-">>

\* file names a view can report on a posix host
PosixFiles ==
    { <<"/", "a", "/", "x", ".", "r", "s">>,
      <<"/", "a", "/", "y", ".", "r", "s">>,
      <<"/", "b", "/", "z", ".", "r", "s">>,
      <<"/", "r", ".", "r", "s">>,
      <<"/", "b", "/", "n", ".", "c">>,
      <<"/", "a", "/", "r", "s">> }

\* file names a view can report on Windows
NtFiles ==
    { <<"c", ":", "\\", "a", "\\", "x", ".", "r", "s">>,
      <<"c", ":", "\\", "a", "\\", "y", ".", "r", "s">>,
      <<"c", ":", "\\", "b", "\\", "z", ".", "r", "s">>,
      <<"c", ":", "\\", "r", ".", "r", "s">>,
      <<"c", ":", "\\", "b", "\\", "n", ".", "c">> }

Files(os) == IF os = "nt" THEN NtFiles ELSE PosixFiles

\* view.file_name() of every view of a window: None for an unsaved buffer
FileNames(os) == Files(os) \cup {None}

\* a view is its window's list of views and its own place in it
Views(os, n) ==
    {[window |-> w, index |-> i] :
        w \in UNION {[1..k -> FileNames(os)] : k \in 1..n}, i \in 1..n}

ViewsOf(os, n) == {v \in Views(os, n) : v.index <= Len(v.window)}

file_name(v) == v.window[v.index]

NoView == [window |-> <<None>>, index |-> 1]

-----------------------------------------------------------------------------
(* determine_context_path                                                  *)

\* paths: the file names of the window's saved views that end in ".rs"
RustPaths(v) ==
    SelectSeq(SelectSeq(v.window, LAMBDA f : f # None),
              LAMBDA path : Suffix(path, 3) = DotRs)

\* directories: one hypothetical sibling file per open rust file
Directories(os, v) ==
    [i \in 1..Len(RustPaths(v)) |->
        join(os, dirname(os, RustPaths(v)[i]), TransientName)]

\* dirs[item]: how often item occurs in directories
Count(seq, item) == Cardinality({i \in 1..Len(seq) : seq[i] = item})

\* MostCommon that takes a key whatever its count
MostCommon_AnyKey(seq) == {seq[i] : i \in 1..Len(seq)}

\* max(dirs.keys(), key=...): the first key of greatest count in the order the
\* dictionary iterates its keys, which Python leaves open: any key of greatest
\* count can be the one returned
MostCommon(seq) ==
    {seq[i] : i \in {j \in 1..Len(seq) :
                        \A k \in 1..Len(seq) : Count(seq, seq[k]) <= Count(seq, seq[j])}}

\* the values determine_context_path(view) can return
determine_context_path(os, v) ==
    IF file_name(v) # None THEN {file_name(v)}
    ELSE IF Len(Directories(os, v)) = 0 THEN {Dash}
    ELSE MostCommon(Directories(os, v))

-----------------------------------------------------------------------------
(* The host's settings object and the Settings class.                      *)

OnChangeTags == {"racer", "search_paths"}

\* what the user's settings file can hold for the two keys; <<>> is a key
\* the file leaves out
SettingsFiles ==
    {[racer |-> <<>>, search_paths |-> <<>>],
     [racer |-> <<"/opt/racer">>, search_paths |-> <<>>],
     [racer |-> <<"/opt/racer">>, search_paths |-> <<<<"~/rust/src">>>>]}

\* package_settings.get(key, default)
get(ps, key, default) == IF ps[key] = <<>> THEN default ELSE ps[key][1]

\* Settings.__init__: both listeners are added, then the two values are read
SettingsInit(ps) ==
    [package_settings |-> [ps EXCEPT !.on_change = ps.on_change \cup OnChangeTags],
     settings |-> [racer_bin    |-> get(ps, "racer", "racer"),
                   search_paths |-> get(ps, "search_paths", <<>>)]]

\* Settings.unload
unload(ps) == [ps EXCEPT !.on_change = ps.on_change \ OnChangeTags]

\* os.path.expanduser(path) for the user's home
expanduser(path) == IF path = "~/rust/src" THEN "/home/u/rust/src" ELSE path

expand_all(paths) == [i \in 1..Len(paths) |-> expanduser(paths[i])]

\* RUST_SRC_PATH as the editor's own environment has it
os_environ == <<"/usr/src/rust">>

-----------------------------------------------------------------------------
(* What racer prints.                                                      *)

\* well-formed lines racer prints for complete-with-snippet
CompleteMatches ==
    {
      \* MATCH m;m;1;0;/m.rs;Module;/m.rs
      <<"M", "A", "T", "C", "H", " ", "m", ";", "m", ";", "1", ";", "0", ";",
        "/", "m", ".", "r", "s", ";", "M", "o", "d", "u", "l", "e", ";", "/",
        "m", ".", "r", "s">>,
      \* MATCH f;f();3;10;/x.rs;Function;fn f()
      <<"M", "A", "T", "C", "H", " ", "f", ";", "f", "(", ")", ";", "3", ";",
        "1", "0", ";", "/", "x", ".", "r", "s", ";", "F", "u", "n", "c", "t",
        "i", "o", "n", ";", "f", "n", " ", "f", "(", ")">>,
      \* MATCH S;S;2;4;/x.rs;Struct;struct S; x
      <<"M", "A", "T", "C", "H", " ", "S", ";", "S", ";", "2", ";", "4", ";",
        "/", "x", ".", "r", "s", ";", "S", "t", "r", "u", "c", "t", ";", "s",
        "t", "r", "u", "c", "t", " ", "S", ";", " ", "x">>,
      \* MATCH T;T;6;0;/x.rs;Trait;trait T
      <<"M", "A", "T", "C", "H", " ", "T", ";", "T", ";", "6", ";", "0", ";",
        "/", "x", ".", "r", "s", ";", "T", "r", "a", "i", "t", ";", "t", "r",
        "a", "i", "t", " ", "T">>,
      \* MATCH A;A;8;0;/x.rs;Type;type A
      <<"M", "A", "T", "C", "H", " ", "A", ";", "A", ";", "8", ";", "0", ";",
        "/", "x", ".", "r", "s", ";", "T", "y", "p", "e", ";", "t", "y", "p",
        "e", " ", "A">>,
      \* MATCH E;E;7;0;/x.rs;Enum;enum E
      <<"M", "A", "T", "C", "H", " ", "E", ";", "E", ";", "7", ";", "0", ";",
        "/", "x", ".", "r", "s", ";", "E", "n", "u", "m", ";", "e", "n", "u",
        "m", " ", "E">>,
      \* MATCH v;v;4;8;/x.rs;Let;let v
      <<"M", "A", "T", "C", "H", " ", "v", ";", "v", ";", "4", ";", "8", ";",
        "/", "x", ".", "r", "s", ";", "L", "e", "t", ";", "l", "e", "t", " ",
        "v">>,
      \* MATCH c;c;5;0;/x.rs;Const;const c
      <<"M", "A", "T", "C", "H", " ", "c", ";", "c", ";", "5", ";", "0", ";",
        "/", "x", ".", "r", "s", ";", "C", "o", "n", "s", "t", ";", "c", "o",
        "n", "s", "t", " ", "c">>
    }

\* a line of that output that lacks fields
CompleteOthers ==
    {
      \* MATCH f;f
      <<"M", "A", "T", "C", "H", " ", "f", ";", "f">>
    }

\* well-formed lines racer prints for find-definition
DefinitionMatches ==
    {
      \* MATCH f,3,10,/x.rs,Function,fn f(a, b)
      <<"M", "A", "T", "C", "H", " ", "f", ",", "3", ",", "1", "0", ",", "/",
        "x", ".", "r", "s", ",", "F", "u", "n", "c", "t", "i", "o", "n", ",",
        "f", "n", " ", "f", "(", "a", ",", " ", "b", ")">>,
      \* MATCH S,5,2,/p/lib.rs,Struct,struct S
      <<"M", "A", "T", "C", "H", " ", "S", ",", "5", ",", "2", ",", "/", "p",
        "/", "l", "i", "b", ".", "r", "s", ",", "S", "t", "r", "u", "c", "t",
        ",", "s", "t", "r", "u", "c", "t", " ", "S">>,
      \* MATCH g,7,0,c:\w.rs,Function,fn g()
      <<"M", "A", "T", "C", "H", " ", "g", ",", "7", ",", "0", ",", "c", ":",
        "\\", "w", ".", "r", "s", ",", "F", "u", "n", "c", "t", "i", "o",
        "n", ",", "f", "n", " ", "g", "(", ")">>
    }

\* lines of that output that lack fields, or hold text where a number goes
DefinitionOthers ==
    {
      \* MATCH f,3
      <<"M", "A", "T", "C", "H", " ", "f", ",", "3">>,
      \* MATCH h,x,1,/x.rs,Function,fn h()
      <<"M", "A", "T", "C", "H", " ", "h", ",", "x", ",", "1", ",", "/", "x",
        ".", "r", "s", ",", "F", "u", "n", "c", "t", "i", "o", "n", ",", "f",
        "n", " ", "h", "(", ")">>
    }

\* lines either command can meet: no match, and bytes that are not UTF-8
SharedOthers ==
    {
      \* END
      <<"E", "N", "D">>,
      \* MATCH \xff
      <<"M", "A", "T", "C", "H", " ", BadByte>>
    }

MatchString == <<"M", "A", "T", "C", "H", " ">>

KModule == <<"M", "o", "d", "u", "l", "e">>

KFunction == <<"F", "u", "n", "c", "t", "i", "o", "n">>

KStruct == <<"S", "t", "r", "u", "c", "t">>

KTrait == <<"T", "r", "a", "i", "t">>

KType == <<"T", "y", "p", "e">>

KEnum == <<"E", "n", "u", "m">>

\* the lines one request's output is made of
OutputLines(cmd) ==
    IF cmd = "complete-with-snippet"
    THEN CompleteMatches \cup CompleteOthers \cup SharedOthers
    ELSE DefinitionMatches \cup DefinitionOthers \cup SharedOthers

\* the bytes of an output: every line ends in a line feed
Bytes(lines) == Concat([i \in 1..Len(lines) |-> lines[i] \o <<"\n">>])

Outputs(cmd) == {Bytes(ls) : ls \in SeqsUpTo(OutputLines(cmd), MaxLines)}

\* what a process that ran can end with: its exit status and standard error
ExitCodes == {0, 1}

ErrBytes == <<"e", "r", "r">>

NoEngine == [spawn |-> "none", exit_code |-> 0, output |-> <<>>, err |-> <<>>]

-----------------------------------------------------------------------------
(* Result and the parsing loop of run_racer.                               *)

\* the maxsplit arguments of the two split calls
SnippetMaxSplit == 7

DefinitionMaxSplit == 6

\* the fields of one MATCH line
LineParts(line, with_snippet) ==
    IF with_snippet
    THEN split(Drop(line, Len(MatchString) + 1), ";", SnippetMaxSplit)
    ELSE insert(split(Drop(line, Len(MatchString) + 1), ",", DefinitionMaxSplit),
                1, <<>>)

\* the exception Result(parts) ends with, "none" when it builds the record
ResultError(parts) ==
    IF Len(parts) < 3 THEN "IndexError"
    ELSE IF ~IsInt(parts[3]) THEN "ValueError"
    ELSE IF Len(parts) < 4 THEN "IndexError"
    ELSE IF ~IsInt(parts[4]) THEN "ValueError"
    ELSE IF Len(parts) < 7 THEN "IndexError"
    ELSE "none"

Result(parts) ==
    [completion |-> parts[1],
     snippet    |-> parts[2],
     row        |-> int(parts[3]),
     column     |-> int(parts[4]),
     path       |-> parts[5],
     type       |-> parts[6],
     context    |-> parts[7]]

\* one turn of the loop over the lines: the results so far, or the exception
ParseLine(line, with_snippet, sofar) ==
    LET parts == LineParts(line, with_snippet)
    IN  IF sofar.raised # "none" THEN sofar
        ELSE IF ~Decodes(line)
        THEN [raised |-> "UnicodeDecodeError", results |-> <<>>]
        ELSE IF ~StartsWith(line, MatchString) THEN sofar
        ELSE IF ResultError(parts) # "none"
        THEN [raised |-> ResultError(parts), results |-> <<>>]
        ELSE [sofar EXCEPT !.results = Append(sofar.results, Result(parts))]

\* for byte_line in output.splitlines(): ...
RECURSIVE ParseLines(_, _, _)
ParseLines(lines, with_snippet, n) ==
    IF n = 0 THEN [raised |-> "none", results |-> <<>>]
    ELSE ParseLine(lines[n], with_snippet, ParseLines(lines, with_snippet, n - 1))

\* ParseResults with the test of the exit status left out
ParseResults_AnyExit(exit_code, output, with_snippet) ==
    ParseLines(splitlines(output), with_snippet, Len(splitlines(output)))

\* the results of a process that ran: parsed on exit status 0 only
ParseResults(exit_code, output, with_snippet) ==
    IF exit_code = 0
    THEN ParseLines(splitlines(output), with_snippet, Len(splitlines(output)))
    ELSE [raised |-> "none", results |-> <<>>]

\* print("CMD: '%s' failed: exit_code:" % ' '.join(cmd_list), exit_code, output, err)
FailureReport(cmd_list, eng) ==
    [text      |-> "CMD failed",
     cmd       |-> cmd_list,
     exit_code |-> eng.exit_code,
     output    |-> eng.output,
     err       |-> eng.err]

\* the diagnostics run_racer prints for a process that ran
Diagnostics(cmd_list, eng) ==
    IF eng.exit_code = 0 THEN <<>> ELSE <<FailureReport(cmd_list, eng)>>

\* CommandLine without the "-" that makes racer read its standard input
CommandLine_NoDash(racer_bin, cmd_list, context_path) ==
    Append(<<racer_bin>> \o cmd_list, context_path)

\* the argument vector run_racer hands to Popen
CommandLine(racer_bin, cmd_list, context_path) ==
    Append(Append(<<racer_bin>> \o cmd_list, context_path), Dash)

\* env['RUST_SRC_PATH'] before the entries are joined by os.pathsep
RustSrcPath(search_paths) == expand_all(search_paths) \o os_environ

\* run_racer(view, cmd_list), for the context path and the process it met:
\* what it raised, what it returned, and what it did on the way
run_racer(st, context_path, cmd_list, eng) ==
    LET with_snippet == cmd_list[1] = "complete-with-snippet"
        argv   == CommandLine(st[1].racer_bin, cmd_list, context_path)
        parsed == ParseResults(eng.exit_code, eng.output, with_snippet)
    IN  IF st = None
        THEN [raised |-> "AttributeError", results |-> <<>>, argv |-> <<>>,
              env |-> <<>>, printed |-> <<>>]
        ELSE IF eng.spawn # "ok"
        THEN [raised |-> eng.spawn, results |-> <<>>, argv |-> argv,
              env |-> RustSrcPath(st[1].search_paths), printed |-> <<>>]
        ELSE [raised |-> parsed.raised, results |-> parsed.results, argv |-> argv,
              env |-> RustSrcPath(st[1].search_paths),
              printed |-> Diagnostics(argv, eng)]

-----------------------------------------------------------------------------
(* RustAutocomplete.on_query_completions                                   *)

\* the key function cmp of the sort
cmp(raw_result) ==
    IF raw_result.type = KModule THEN 0
    ELSE IF raw_result.type = KFunction THEN 1
    ELSE IF raw_result.type = KStruct THEN 2
    ELSE IF raw_result.type = KTrait THEN 3
    ELSE IF raw_result.type = KType THEN 4
    ELSE IF raw_result.type = KEnum THEN 5
    ELSE 100

\* InsertByKey of a sort that is not stable: x goes before its equals
InsertByKey_Unstable(done, x) ==
    LET n == Cardinality({i \in 1..Len(done) : cmp(done[i]) < cmp(x)})
    IN  SubSeq(done, 1, n) \o <<x>> \o Drop(done, n + 1)

\* one step of a stable sort: x goes behind every element whose key is not greater
InsertByKey(done, x) ==
    LET n == Cardinality({i \in 1..Len(done) : cmp(done[i]) <= cmp(x)})
    IN  SubSeq(done, 1, n) \o <<x>> \o Drop(done, n + 1)

\* sorted(raw_results, key = cmp)
RECURSIVE sorted(_)
sorted(raw_results) ==
    IF Len(raw_results) = 0 THEN <<>>
    ELSE InsertByKey(sorted(SubSeq(raw_results, 1, Len(raw_results) - 1)),
                     raw_results[Len(raw_results)])

\* the greatest value of f over 1..n, and at least start
RECURSIVE MaxOver(_, _, _)
MaxOver(f, n, start) ==
    IF n = 0 THEN start ELSE Max(MaxOver(f, n - 1, start), f[n])

\* lalign: the widest completion and type taken together
LAlign(raw_results) ==
    MaxOver([i \in 1..Len(raw_results) |->
                Len(raw_results[i].completion) + Len(raw_results[i].type)],
            Len(raw_results), 0)

\* "{0}   {1:>{2}}{3}".format(completion, type, lalign - len(completion), context)
DisplayLine(result, lalign) ==
    result.completion \o Spaces(3)
        \o RightAlign(result.type, lalign - Len(result.completion))
        \o (IF result.type # KModule THEN <<" ", ":", " ">> \o result.context
            ELSE <<>>)

\* results, before the first entry is padded
Entries(raw_results) ==
    [i \in 1..Len(raw_results) |->
        <<DisplayLine(raw_results[i], LAlign(raw_results)), raw_results[i].snippet>>]

\* longest: the longest display line
Longest(results) ==
    MaxOver([i \in 1..Len(results) |-> Len(results[i][1])], Len(results), 0)

\* results, the first entry padded towards the longest line
Padded(results) ==
    [results EXCEPT ![1] =
        <<results[1][1] \o Spaces(Longest(results) - Len(results[1][1]) - 2),
          results[1][2]>>]

InhibitFlags == {"INHIBIT_WORD_COMPLETIONS", "INHIBIT_EXPLICIT_COMPLETIONS"}

\* Answer without the test for an empty list
Answer_AlwaysList(results) ==
    [returned |-> "list", completions |-> results, flags |-> InhibitFlags]

\* what the handler returns for the entries it built: the padded list and the
\* two flags, or nothing at all (None) when there is no entry
Answer(results) ==
    IF Len(results) > 0
    THEN [returned |-> "list", completions |-> Padded(results), flags |-> InhibitFlags]
    ELSE [returned |-> "None", completions |-> <<>>, flags |-> {}]

\* view.rowcol(point): the cursor places a request is made from
Cursors == {<<0, 0>>, <<11, 9>>}

NoRequest ==
    [op |-> "none", cursor |-> <<0, 0>>, is_rust |-> FALSE, context_path |-> None,
     engine |-> NoEngine, argv |-> <<>>, env |-> <<>>, raw_results |-> <<>>,
     ranked |-> <<>>, raised |-> "none", returned |-> "nothing",
     completions |-> <<>>, flags |-> {}, opened |-> <<>>, printed |-> <<>>]

\* what the call did, from run_racer's part of it
Ran(op, cursor, context_path, eng, r) ==
    [NoRequest EXCEPT !.op = op, !.cursor = cursor,
                      !.is_rust = (op = "on_query_completions"),
                      !.context_path = context_path, !.engine = eng,
                      !.argv = r.argv, !.env = r.env, !.printed = r.printed]

\* on_query_completions(view, prefix, locations) for a view the selector matches
Complete(st, cursor, context_path, eng) ==
    LET r == run_racer(st, context_path,
                       <<"complete-with-snippet", str(cursor[1] + 1), str(cursor[2])>>,
                       eng)
        ran     == Ran("on_query_completions", cursor, context_path, eng, r)
        ranked  == sorted(r.results)
        results == Entries(ranked)
    IN  IF r.raised = "FileNotFoundError"
        THEN [ran EXCEPT !.returned = "None",
                         !.printed = Append(r.printed, [text |-> "Unable to find racer executable (check settings)"])]
        ELSE IF r.raised # "none"
        THEN [ran EXCEPT !.raised = r.raised]
        ELSE [ran EXCEPT !.raw_results = r.results, !.ranked = ranked,
                         !.returned = Answer(results).returned,
                         !.completions = Answer(results).completions,
                         !.flags = Answer(results).flags]

-----------------------------------------------------------------------------
(* RustGotoDefinitionCommand.run                                           *)

WordChars == LetterSet \cup DigitSet \cup {"_"}

\* re.compile('^\w\:').match(path)
HasDrive(path) == Len(path) >= 2 /\ path[1] \in WordChars /\ path[2] = ":"

\* the path handed to open_file
OpenPath(plat, path) ==
    IF plat = "windows" /\ ~HasDrive(path) THEN <<"c", ":">> \o path ELSE path

\* "{0}:{1}:{2}".format(path, result.row, result.column)
EncodedPath(path, row, column) ==
    path \o <<":">> \o str(row) \o <<":">> \o str(column)

\* Navigation that takes the first of several results
Navigation_First(plat, results) ==
    IF Len(results) >= 1
    THEN <<[file  |-> EncodedPath(OpenPath(plat, results[1].path),
                                  results[1].row, results[1].column),
            flags |-> "ENCODED_POSITION"]>>
    ELSE <<>>

\* the open_file calls run makes for the results it got
Navigation(plat, results) ==
    IF Len(results) = 1
    THEN <<[file  |-> EncodedPath(OpenPath(plat, results[1].path),
                                  results[1].row, results[1].column),
            flags |-> "ENCODED_POSITION"]>>
    ELSE <<>>

\* run(edit)
GotoDefinition(plat, st, cursor, context_path, eng) ==
    LET r == run_racer(st, context_path,
                       <<"find-definition", str(cursor[1] + 1), str(cursor[2])>>,
                       eng)
        ran == Ran("run", cursor, context_path, eng, r)
    IN  IF r.raised # "none"
        THEN [ran EXCEPT !.raised = r.raised]
        ELSE [ran EXCEPT !.raw_results = r.results, !.returned = "None",
                         !.opened = Navigation(plat, r.results)]

-----------------------------------------------------------------------------
(* The environment of one request.                                         *)

\* what Popen and the process can do: the binary is missing, it is there but
\* cannot be executed, or it runs and ends with an exit status and an output
Engines(cmd) ==
    {[NoEngine EXCEPT !.spawn = sp] : sp \in {"FileNotFoundError", "PermissionError"}}
    \cup
    {[spawn |-> "ok", exit_code |-> e, output |-> o,
      err |-> IF e = 0 THEN <<>> ELSE ErrBytes] :
        e \in ExitCodes, o \in Outputs(cmd)}

FileAX(os) ==
    IF os = "nt" THEN <<"c", ":", "\\", "a", "\\", "x", ".", "r", "s">>
    ELSE <<"/", "a", "/", "x", ".", "r", "s">>

FileBZ(os) ==
    IF os = "nt" THEN <<"c", ":", "\\", "b", "\\", "z", ".", "r", "s">>
    ELSE <<"/", "b", "/", "z", ".", "r", "s">>

\* the views requests are made from: a saved file, an unsaved buffer alone
\* in its window, and an unsaved buffer beside rust files of two directories
RequestViews(os) ==
    {[window |-> <<FileAX(os), FileBZ(os)>>, index |-> 1],
     [window |-> <<None>>, index |-> 1],
     [window |-> <<FileAX(os), None, FileBZ(os)>>, index |-> 2]}

-----------------------------------------------------------------------------
(* The actions: the calls the host makes, one at a time.                   *)

Idle == request.op = "none"

\* a call of one of the three module functions, once it has returned
Called(name) == [NoRequest EXCEPT !.op = name, !.returned = "None"]

\* plugin_loaded(): the host calls it once a freshly loaded module is ready,
\* so the global is still None
plugin_loaded ==
    /\ Idle
    /\ settings = None
    /\ stale' = package_settings.on_change
    /\ package_settings' = SettingsInit(package_settings).package_settings
    /\ settings' = <<SettingsInit(package_settings).settings>>
    /\ live' = live + 1
    /\ request' = Called("plugin_loaded")
    /\ UNCHANGED <<platform, view>>

\* Discard that forgets to call unload()
Discard_KeepsListeners(st, ps, lv) ==
    IF st # None
    THEN [package_settings |-> ps, settings |-> None, live |-> lv - 1]
    ELSE [package_settings |-> ps, settings |-> st, live |-> lv]

\* if settings != None: settings.unload(); settings = None
Discard(st, ps, lv) ==
    IF st # None
    THEN [package_settings |-> unload(ps), settings |-> None, live |-> lv - 1]
    ELSE [package_settings |-> ps, settings |-> st, live |-> lv]

\* plugin_unloaded()
plugin_unloaded ==
    /\ Idle
    /\ package_settings' = Discard(settings, package_settings, live).package_settings
    /\ settings' = Discard(settings, package_settings, live).settings
    /\ live' = Discard(settings, package_settings, live).live
    /\ request' = Called("plugin_unloaded")
    /\ UNCHANGED <<platform, stale, view>>

\* the user saves the settings file while a listener is registered: the host
\* takes the new values and calls settings_changed()
settings_changed ==
    /\ Idle
    /\ package_settings.on_change # {}
    /\ \E file \in SettingsFiles :
          LET saved == [package_settings EXCEPT !.racer = file.racer,
                                                !.search_paths = file.search_paths]
              clean == Discard(settings, saved, live)
          IN  /\ stale' = clean.package_settings.on_change
              /\ package_settings' = SettingsInit(clean.package_settings).package_settings
              /\ settings' = <<SettingsInit(clean.package_settings).settings>>
              /\ live' = clean.live + 1
    /\ request' = Called("settings_changed")
    /\ UNCHANGED <<platform, view>>

\* the user saves the settings file while nothing listens
edit_settings ==
    /\ Idle
    /\ package_settings.on_change = {}
    /\ \E file \in SettingsFiles :
          package_settings' = [package_settings EXCEPT !.racer = file.racer,
                                                       !.search_paths = file.search_paths]
    /\ UNCHANGED <<platform, settings, live, stale, view, request>>

\* the context paths run_racer can get; it reads settings.racer_bin first
ContextPaths(st, os, v) ==
    IF st = None THEN {None} ELSE determine_context_path(os, v)

\* the processes run_racer can meet
EnginesMet(st, cmd) == IF st = None THEN {NoEngine} ELSE Engines(cmd)

\* EventListener.on_query_completions
on_query_completions ==
    /\ Idle
    /\ \E v \in RequestViews(os_name), cursor \in Cursors, is_rust \in BOOLEAN :
          /\ view' = v
          /\ IF is_rust
             THEN \E context_path \in ContextPaths(settings, os_name, v),
                     eng \in EnginesMet(settings, "complete-with-snippet") :
                     request' = Complete(settings, cursor, context_path, eng)
             ELSE request' = [NoRequest EXCEPT !.op = "on_query_completions",
                                               !.cursor = cursor,
                                               !.returned = "None"]
    /\ UNCHANGED <<platform, package_settings, settings, live, stale>>

\* TextCommand rust_goto_definition
RustGotoDefinitionCommand_run ==
    /\ Idle
    /\ \E v \in RequestViews(os_name), cursor \in Cursors :
          /\ view' = v
          /\ \E context_path \in ContextPaths(settings, os_name, v),
                eng \in EnginesMet(settings, "find-definition") :
                request' = GotoDefinition(platform, settings, cursor, context_path, eng)
    /\ UNCHANGED <<platform, package_settings, settings, live, stale>>

\* the handler has returned (or raised) and the host takes the next event
EventDone ==
    /\ ~Idle
    /\ request' = NoRequest
    /\ view' = NoView
    /\ UNCHANGED <<platform, package_settings, settings, live, stale>>

Platforms == {"linux", "windows"}

Init ==
    /\ platform \in Platforms
    /\ package_settings \in
          {[racer |-> file.racer, search_paths |-> file.search_paths,
            on_change |-> {}] : file \in SettingsFiles}
    /\ settings = None
    /\ live = 0
    /\ stale = {}
    /\ view = NoView
    /\ request = NoRequest

Next ==
    \/ plugin_loaded
    \/ plugin_unloaded
    \/ settings_changed
    \/ edit_settings
    \/ on_query_completions
    \/ RustGotoDefinitionCommand_run
    \/ EventDone

Spec == Init /\ [][Next]_vars

-----------------------------------------------------------------------------
(* determine_context_path on its own, over every window within the bound.  *)

InitCtx ==
    /\ platform \in Platforms
    /\ package_settings = [racer |-> <<>>, search_paths |-> <<>>, on_change |-> {}]
    /\ settings = None
    /\ live = 0
    /\ stale = {}
    /\ view \in ViewsOf(os_name, MaxViews)
    /\ request = NoRequest

\* determine_context_path(view) is called and returns
ContextPathResolved ==
    /\ Idle
    /\ \E context_path \in determine_context_path(os_name, view) :
          request' = [NoRequest EXCEPT !.op = "determine_context_path",
                                       !.context_path = context_path]
    /\ UNCHANGED <<platform, package_settings, settings, live, stale, view>>

NextCtx == ContextPathResolved

SpecCtx == InitCtx /\ [][NextCtx]_vars

-----------------------------------------------------------------------------
(* What the claims speak of.                                               *)

IsRequest == request.op \in {"on_query_completions", "run"}

\* the process of the request ran to its end
EngineRan == IsRequest /\ request.engine.spawn = "ok"

\* Popen could not start the configured binary
EngineNotStarted ==
    IsRequest /\ request.engine.spawn \in {"FileNotFoundError", "PermissionError"}

\* the lines of the request's output that begin with "MATCH ", prefix removed
MatchBodies ==
    LET ms == SelectSeq(splitlines(request.engine.output),
                        LAMBDA l : StartsWith(l, MatchString))
    IN  [i \in 1..Len(ms) |-> Drop(ms[i], Len(MatchString) + 1)]

\* text cut at sep into at most n fields: the last field is all that is left
FieldsAtMost(text, sep, n) == split(text, sep, n - 1)

\* the record the seven fields stand for
RecordOf(fields) ==
    [completion |-> fields[1], snippet |-> fields[2], row |-> int(fields[3]),
     column |-> int(fields[4]), path |-> fields[5], type |-> fields[6],
     context |-> fields[7]]

\* the request ran racer to exit status 0 and parsed every line of its output
Parsed(op) ==
    /\ request.op = op
    /\ EngineRan
    /\ request.engine.exit_code = 0
    /\ request.raised = "none"

-----------------------------------------------------------------------------
\* C1: a request whose racer process ends with a non-zero exit status gets no
\* results, whatever the process printed; one diagnostic holding the exit
\* status is printed, and no exception leaves the handler.
C1_FailedEngineYieldsNothing ==
    (EngineRan /\ request.engine.exit_code # 0) =>
        /\ request.raw_results = <<>>
        /\ request.completions = <<>>
        /\ request.opened = <<>>
        /\ request.raised = "none"
        /\ Len(request.printed) = 1
        /\ request.printed[1].exit_code = request.engine.exit_code

\* C1 happens: the process failed after printing a MATCH line
C1_Witness ==
    /\ EngineRan
    /\ request.engine.exit_code # 0
    /\ Len(MatchBodies) > 0
    /\ Len(request.printed) = 1

\* C2: when Popen cannot start the configured binary, either request ends in
\* the "engine not found" outcome: the message is printed, there are no
\* results and no navigation, and no exception reaches the host.
C2_EngineNotFoundIsHandled ==
    EngineNotStarted =>
        /\ request.raised = "none"
        /\ \E i \in 1..Len(request.printed) :
              request.printed[i].text = "Unable to find racer executable (check settings)"
        /\ request.completions = <<>>
        /\ request.opened = <<>>

\* C3: the argument vector of the spawned process is the six elements
\* [engine_binary, command_kind, row, column, context_path, "-"], the binary
\* being the one of the current settings and the context path the one
\* determine_context_path gives for the view.
C3_ArgumentVector ==
    (IsRequest /\ request.engine.spawn # "none") =>
        /\ Len(request.argv) = 6
        /\ settings # None
        /\ request.argv[1] = settings[1].racer_bin
        /\ request.argv[1] = get(package_settings, "racer", "racer")
        /\ request.argv[2] = (IF request.op = "run" THEN "find-definition"
                              ELSE "complete-with-snippet")
        /\ IsInt(request.argv[3])
        /\ int(request.argv[3]) = request.cursor[1] + 1
        /\ IsInt(request.argv[4])
        /\ int(request.argv[4]) = request.cursor[2]
        /\ request.argv[5] \in determine_context_path(os_name, view)
        /\ request.argv[6] = Dash

\* C3 happens: a custom binary is spawned for an unsaved buffer beside rust files
C3_Witness ==
    /\ request.op = "run"
    /\ request.engine.spawn = "ok"
    /\ request.argv[1] = "/opt/racer"
    /\ file_name(view) = None
    /\ request.argv[5] # Dash
    /\ request.cursor[1] > 0

\* C4: on exit status 0 every MATCH line of a complete-with-snippet output is
\* cut at ';' into at most 7 fields (completion, snippet, row, column, path,
\* kind, context), so the context is all that follows the sixth ';'.
C4_SnippetLineFields ==
    Parsed("on_query_completions") =>
        /\ Len(request.raw_results) = Len(MatchBodies)
        /\ \A i \in 1..Len(MatchBodies) :
              request.raw_results[i] = RecordOf(FieldsAtMost(MatchBodies[i], ";", 7))

\* C5: on exit status 0 every MATCH line of a find-definition output is cut at
\* ',' into at most 6 fields and an empty snippet is put in second place, so
\* the context is all that follows the fifth ','.
C5_DefinitionLineFields ==
    Parsed("run") =>
        /\ Len(request.raw_results) = Len(MatchBodies)
        /\ \A i \in 1..Len(MatchBodies) :
              /\ request.raw_results[i].snippet = <<>>
              /\ request.raw_results[i] =
                    RecordOf(insert(FieldsAtMost(MatchBodies[i], ",", 6), 1, <<>>))

\* the rank the claim gives a kind: Module < Function < Struct < Trait < Type
\* < Enum < any other kind
KindOrder == <<KModule, KFunction, KStruct, KTrait, KType, KEnum>>

KindRank(kind) ==
    IF \E k \in 1..Len(KindOrder) : KindOrder[k] = kind
    THEN CHOOSE k \in 1..Len(KindOrder) : KindOrder[k] = kind
    ELSE Len(KindOrder) + 1

OfRank(records, k) == SelectSeq(records, LAMBDA r : KindRank(r.type) = k)

\* C6: the completion list is the parsed records in the order of the kind
\* rank, and records of one rank keep the order racer printed them in.
C6_RankedStably ==
    Parsed("on_query_completions") =>
        /\ Len(request.ranked) = Len(request.raw_results)
        /\ \A i, j \in 1..Len(request.ranked) :
              i < j => KindRank(request.ranked[i].type) <= KindRank(request.ranked[j].type)
        /\ \A k \in 1..(Len(KindOrder) + 1) :
              OfRank(request.ranked, k) = OfRank(request.raw_results, k)
        /\ Len(request.completions) = Len(request.ranked)
        /\ \A i \in 1..Len(request.completions) :
              /\ StartsWith(request.completions[i][1], request.ranked[i].completion)
              /\ request.completions[i][2] = request.ranked[i].snippet

\* C6 happens: racer printed an Enum before a Module, and the Module comes first
C6_Witness ==
    /\ Parsed("on_query_completions")
    /\ Len(request.raw_results) >= 2
    /\ request.raw_results[1].type = KEnum
    /\ request.raw_results[2].type = KModule
    /\ request.ranked[1].type = KModule
    /\ request.returned = "list"

\* C7: a completion request returns a list with the two suppression flags
\* exactly when at least one record was parsed; otherwise it returns nothing
\* and sets no flag; a returned list has one entry per parsed record.
C7_FlagsOnlyWithResults ==
    request.op = "on_query_completions" =>
        /\ request.returned = "list" <=> Len(request.raw_results) >= 1
        /\ Parsed("on_query_completions") =>
              Len(request.raw_results) = Len(MatchBodies)
        /\ request.returned = "list" =>
              /\ request.flags = {"INHIBIT_WORD_COMPLETIONS", "INHIBIT_EXPLICIT_COMPLETIONS"}
              /\ Len(request.completions) = Len(request.raw_results)
        /\ request.returned # "list" =>
              /\ request.flags = {}
              /\ request.completions = <<>>

\* C7 happens: racer ran to exit status 0 and printed no MATCH line
C7_Witness ==
    /\ Parsed("on_query_completions")
    /\ Len(request.engine.output) > 0
    /\ Len(MatchBodies) = 0
    /\ request.returned = "None"
    /\ request.flags = {}

\* C8 as stated: a definition request opens a file exactly when one record
\* came back, and the target is that record's path, row and column.
C8_TargetIsRecordPath ==
    request.op = "run" =>
        /\ Len(request.opened) = 1 <=> Len(request.raw_results) = 1
        /\ Len(request.opened) = 0 <=> Len(request.raw_results) # 1
        /\ Len(request.opened) = 1 =>
              request.opened[1].file =
                  EncodedPath(request.raw_results[1].path,
                              request.raw_results[1].row,
                              request.raw_results[1].column)

\* the path of the target on Windows: "c:" is put before a path that does not
\* begin with a word character and a colon
TargetPath(path) ==
    IF platform = "windows"
       /\ ~(Len(path) >= 2 /\ path[1] \in WordChars /\ path[2] = ":")
    THEN <<"c", ":">> \o path
    ELSE path

\* C8, amended: a definition request opens a file exactly when one record
\* came back; the target is that record's row and column and its path, which
\* on Windows gets "c:" in front when it names no drive.
C8_TargetIsNormalizedPath ==
    request.op = "run" =>
        /\ Len(request.opened) = 1 <=> Len(request.raw_results) = 1
        /\ Len(request.opened) = 0 <=> Len(request.raw_results) # 1
        /\ Parsed("run") => Len(request.raw_results) = Len(MatchBodies)
        /\ Len(request.opened) = 1 =>
              request.opened[1].file =
                  EncodedPath(TargetPath(request.raw_results[1].path),
                              request.raw_results[1].row,
                              request.raw_results[1].column)

\* C8 happens: on Windows one record came back whose path names no drive
C8_Witness ==
    /\ Parsed("run")
    /\ platform = "windows"
    /\ Len(request.raw_results) = 1
    /\ request.raw_results[1].path[1] = "/"
    /\ Len(request.opened) = 1

\* the open documents whose path ends in ".rs"
OpenRustFiles ==
    {i \in 1..Len(view.window) :
        /\ view.window[i] # None
        /\ Len(view.window[i]) >= 3
        /\ SubSeq(view.window[i], Len(view.window[i]) - 2, Len(view.window[i])) = DotRs}

\* the candidate an open document stands for: _transient.rs in its directory
Candidate(i) == join(os_name, dirname(os_name, view.window[i]), TransientName)

\* how many open rust documents stand for the candidate c
Occurrences(c) == Cardinality({i \in OpenRustFiles : Candidate(i) = c})

\* C9: determine_context_path returns the view's own path when it has one;
\* otherwise "-" when no open document ends in ".rs"; otherwise a candidate
\* that no other candidate occurs more often than.
C9_ContextPath ==
    request.op = "determine_context_path" =>
        IF file_name(view) # None THEN request.context_path = file_name(view)
        ELSE IF OpenRustFiles = {} THEN request.context_path = Dash
        ELSE /\ \E i \in OpenRustFiles : request.context_path = Candidate(i)
             /\ \A i \in OpenRustFiles :
                   Occurrences(Candidate(i)) <= Occurrences(request.context_path)

\* C9 happens: an unsaved buffer beside rust files of two directories, one
\* directory holding more of them, and its candidate is the one returned
C9_Witness ==
    /\ request.op = "determine_context_path"
    /\ file_name(view) = None
    /\ \E i \in OpenRustFiles :
          Occurrences(Candidate(i)) < Occurrences(request.context_path)

\* C10: from plugin_loaded until plugin_unloaded one Settings object is live
\* at the end of every call: the global is set and both change listeners are
\* registered, and no listener was left registered when a new object was
\* built; after plugin_unloaded nothing is live and no listener is registered.
C10_OneLiveSettings ==
    /\ stale = {}
    /\ settings # None =>
          /\ live = 1
          /\ package_settings.on_change = {"racer", "search_paths"}
    /\ settings = None =>
          /\ live = 0
          /\ package_settings.on_change = {}
    /\ request.op \in {"plugin_loaded", "settings_changed"} => settings # None
    /\ request.op = "plugin_unloaded" => settings = None

\* C10 happens: settings_changed has replaced the Settings object
C10_Witness ==
    /\ request.op = "settings_changed"
    /\ settings # None
    /\ live = 1
    /\ package_settings.on_change = {"racer", "search_paths"}

====
